---- MODULE Spec2Model ----
(***************************************************************************)
(* Model of the status_bar widgets: Battery (src/src/battery.rs),          *)
(* MemoryUsage (src/src/memory.rs) and the reference render hooks of       *)
(* src/src/main.rs, driven by tokio interval streams.                      *)
(*                                                                         *)
(* Strings read from files are sequences of one-character strings, so     *)
(* that trim, parse and match are computed character by character.         *)
(* Time is counted in whole seconds.                                       *)
(***************************************************************************)
EXTENDS Integers, Sequences, FiniteSets, TLC

VARIABLES now, terminated, bar, battery, memory, deadline, fired, out, last

vars == <<now, terminated, bar, battery, memory, deadline, fired, out, last>>

(***************************************************************************)
(* Bounds of the model.                                                    *)
(***************************************************************************)
\* the clock runs from 0 to MaxTime seconds
MaxTime == 4
\* update_interval handed to Battery::new, in seconds
BatteryInterval == 2
\* longest delay between a timer's deadline and the poll that observes it
MaxLatency == 1
\* largest byte count of main memory an OS snapshot reports
MaxMem == 3
\* largest byte count of swap an OS snapshot reports
MaxSwap == 1

\* update_interval of MemoryUsage::new, Duration::new(1, 0)
MemoryInterval == 1

(***************************************************************************)
(* Strings.                                                                *)
(***************************************************************************)
Digits == <<"0", "1", "2", "3", "4", "5", "6", "7", "8", "9">>

\* char::is_whitespace, over the characters the model uses
IsWhitespace(c) == c \in {" ", "\n", "\t"}

RECURSIVE TrimStart(_)
TrimStart(s) ==
    IF s # <<>> /\ IsWhitespace(Head(s)) THEN TrimStart(Tail(s)) ELSE s

RECURSIVE TrimEnd(_)
TrimEnd(s) ==
    IF s # <<>> /\ IsWhitespace(s[Len(s)])
    THEN TrimEnd(SubSeq(s, 1, Len(s) - 1))
    ELSE s

\* str::trim
Trim(s) == TrimEnd(TrimStart(s))

DigitValue(c) == CHOOSE d \in 0..9 : Digits[d + 1] = c

IsDigit(c) == \E d \in 0..9 : Digits[d + 1] = c

RECURSIVE DecimalValue(_)
DecimalValue(s) ==
    IF s = <<>> THEN 0
    ELSE 10 * DecimalValue(SubSeq(s, 1, Len(s) - 1)) + DigitValue(s[Len(s)])

\* ParseU64 reading the empty string as 0
ParseU64_EmptyIsZero(s) ==
    LET body == IF s # <<>> /\ Head(s) = "+" THEN Tail(s) ELSE s
    IN  IF \A i \in 1..Len(body) : IsDigit(body[i])
        THEN [ok |-> TRUE, val |-> DecimalValue(body)]
        ELSE [ok |-> FALSE]

\* <u64 as FromStr>::from_str: an optional "+", then one or more decimal
\* digits; anything else (empty, sign only, "-", other characters) is Err.
\* The contents the model reads have at most 7 digits, far below 2^64.
ParseU64(s) ==
    LET body == IF s # <<>> /\ Head(s) = "+" THEN Tail(s) ELSE s
    IN  IF body # <<>> /\ \A i \in 1..Len(body) : IsDigit(body[i])
        THEN [ok |-> TRUE, val |-> DecimalValue(body)]
        ELSE [ok |-> FALSE]

S_Charging == <<"C", "h", "a", "r", "g", "i", "n", "g">>
S_Discharging == <<"D", "i", "s", "c", "h", "a", "r", "g", "i", "n", "g">>
S_Full == <<"F", "u", "l", "l">>
S_NotCharging == <<"N", "o", "t", " ", "C", "h", "a", "r", "g", "i", "n", "g">>

ChargeStatus == {"Unknown", "Charging", "Discharging", "NotCharging", "Full"}

\* MatchStatus with the "Not Charging" arm spelt without its space
MatchStatus_NoSpace(s) ==
    CASE s = S_Charging -> "Charging"
      [] s = S_Discharging -> "Discharging"
      [] s = S_Full -> "Full"
      [] s = <<"N", "o", "t", "C", "h", "a", "r", "g", "i", "n", "g">>
            -> "NotCharging"
      [] OTHER -> "Unknown"

\* the match on temp_str.trim() in Battery::tick
MatchStatus(s) ==
    CASE s = S_Charging -> "Charging"
      [] s = S_Discharging -> "Discharging"
      [] s = S_Full -> "Full"
      [] s = S_NotCharging -> "NotCharging"
      [] OTHER -> "Unknown"

(***************************************************************************)
(* Floating point and Duration.  An f64 is NaN, +infinity or a finite      *)
(* non-negative value kept as the exact quotient num/den; a Duration is    *)
(* kept in whole seconds.                                                  *)
(***************************************************************************)
\* F64Div with the operands exchanged
F64Div_Swapped(a, b) ==
    IF a = 0
    THEN IF b = 0 THEN [kind |-> "nan"] ELSE [kind |-> "inf"]
    ELSE [kind |-> "finite", num |-> b, den |-> a]

\* charge_micro_amp_hrs as f64 / current_micro_amps as f64
F64Div(a, b) ==
    IF b = 0
    THEN IF a = 0 THEN [kind |-> "nan"] ELSE [kind |-> "inf"]
    ELSE [kind |-> "finite", num |-> a, den |-> b]

\* 3600.0 * estimated_hrs_left
\* (the scaling by 3600 is applied in DurationFromSecsF64, on the quotient
\* and the remainder separately, to stay within TLC's integers)
SecsPerHour == 3600

\* Duration::from_secs_f64(3600.0 * x): panics when the value is not finite
DurationFromSecsF64(x) ==
    IF x.kind = "finite"
    THEN [ok |-> TRUE,
          secs |-> SecsPerHour * (x.num \div x.den)
                   + (SecsPerHour * (x.num % x.den)) \div x.den]
    ELSE [ok |-> FALSE]

(***************************************************************************)
(* Battery.                                                                *)
(***************************************************************************)
\* a file of the battery directory: whether File::open succeeds, whether
\* read_to_string succeeds, and the text it holds
File(exists, readable, data) ==
    [exists |-> exists, readable |-> readable, data |-> data]

\* let _ = f.read_to_string(&mut temp_str) on a cleared temp_str: the
\* result is discarded, a failed read leaves temp_str empty
ReadToString(f) == IF f.readable THEN f.data ELSE <<>>

\* the render closure of battery_widget() in main.rs
BatteryReferenceRender(info) ==
    LET charge == info.capacity
        colour == IF charge >= 50 THEN "green"
                  ELSE IF charge >= 20 THEN "yellow"
                  ELSE "red"
        emoji  == IF info.status = "Charging" THEN "plug" ELSE "battery"
    IN  [fmt |-> "battery_reference", emoji |-> emoji, colour |-> colour,
         charge |-> charge]

\* format!("{:?} : {}%, : {:.0?}", status, capacity, time_till_empty)
BatteryDefaultFormat(info) ==
    [fmt |-> "battery_default", status |-> info.status,
     capacity |-> info.capacity, secs |-> info.time_till_empty]

\* a caller-supplied hook that ignores the sample and returns text without
\* any markup in it
PlainRender == [fmt |-> "plain"]

ApplyBatteryRender(render, info) ==
    IF render = "reference" THEN BatteryReferenceRender(info) ELSE PlainRender

\* BatteryText with markup set whatever the render hook
BatteryText_MarkupAlways(self, text) ==
    << [attr |-> self.attrs, text |-> text, stretch |-> FALSE,
        markup |-> TRUE] >>

\* the vec![Text { .. }] that ends Battery::tick
BatteryText(self, text) ==
    << [attr |-> self.attrs, text |-> text, stretch |-> FALSE,
        markup |-> self.render # "none"] >>

\* Battery::new
BatteryNew(attrs, render, update_interval) ==
    [attrs |-> attrs, render |-> render, update_interval |-> update_interval]

Panic(msg) == [panic |-> TRUE, msg |-> msg]

\* Battery::tick on the directory dir: either a panic (an expect that
\* failed, or Duration::from_secs_f64 on a non-finite value) or the sample,
\* the number of calls of the render hook and the Vec<Text> returned
BatteryTick(self, dir) ==
    LET current == ParseU64(Trim(ReadToString(dir.current_now)))
        charge  == ParseU64(Trim(ReadToString(dir.charge_now)))
        percent == ParseU64(Trim(ReadToString(dir.capacity)))
        batt_status == MatchStatus(Trim(ReadToString(dir.status)))
    IN  IF ~dir.current_now.exists THEN Panic("Could not open current_now")
        ELSE IF ~dir.charge_now.exists THEN Panic("Could not open charge_full")
        ELSE IF ~dir.capacity.exists THEN Panic("Could not open capacity")
        ELSE IF ~dir.status.exists THEN Panic("Could not open status")
        ELSE IF ~current.ok \/ ~charge.ok \/ ~percent.ok
             THEN Panic("File did not contain integer data")
        ELSE LET estimated_hrs_left == F64Div(charge.val, current.val)
                 estimated_duration == DurationFromSecsF64(estimated_hrs_left)
             IN  IF ~estimated_duration.ok
                 THEN Panic("cannot convert float seconds to Duration")
                 ELSE LET batt_info == [status |-> batt_status,
                                        capacity |-> percent.val,
                                        time_till_empty |->
                                            estimated_duration.secs]
                          text == IF self.render # "none"
                                  THEN ApplyBatteryRender(self.render,
                                                          batt_info)
                                  ELSE BatteryDefaultFormat(batt_info)
                      IN  [panic |-> FALSE,
                           sample |-> batt_info,
                           hook_calls |-> IF self.render # "none"
                                          THEN 1 ELSE 0,
                           batch |-> BatteryText(self, text)]

(***************************************************************************)
(* MemoryUsage.                                                            *)
(***************************************************************************)
\* the counters of sysinfo::System before the first refresh (System::new)
SystemNew ==
    [used_memory |-> 0, free_memory |-> 0, total_memory |-> 0,
     used_swap |-> 0, total_swap |-> 0]

\* the vec![Text { .. }] that ends MemoryUsage::tick
MemoryText(self, text) ==
    << [attr |-> self.attrs, text |-> text, stretch |-> FALSE,
        markup |-> self.render # "none"] >>

\* MemoryUsage::new
MemoryUsageNew(attrs, render) ==
    [attrs |-> attrs, render |-> render, memory_handle |-> SystemNew,
     update_interval |-> MemoryInterval]

\* the colour chosen for one (used, total) pair by the render closure of
\* memory_usage_widget() in main.rs
MemColour(used, total) ==
    LET c0 == "white"
        c1 == IF used >= total \div 2 THEN "yellow" ELSE c0
        c2 == IF used >= (total \div 5) * 4 THEN "red" ELSE c1
    IN  c2

\* the render closure of memory_usage_widget() in main.rs
MemoryReferenceRender(mem, swap) ==
    [fmt |-> "memory_reference",
     mem_colour |-> MemColour(mem[1], mem[2]),
     swap_colour |-> MemColour(swap[1], swap[2]),
     used_mem |-> mem[1], total_mem |-> mem[2],
     used_swap |-> swap[1], total_swap |-> swap[2]]

\* format!("({used_mem}/{total_mem}) ({used_swap}/{total_swap})") over
\* get_appropriate_unit(UnitType::Binary); every count of the model is below
\* 1024 and so is shown in bytes
MemoryDefaultFormat(mem, swap) ==
    [fmt |-> "memory_default", used_mem |-> <<mem[1], "B">>,
     total_mem |-> <<mem[2], "B">>, used_swap |-> <<swap[1], "B">>,
     total_swap |-> <<swap[2], "B">>]

ApplyMemoryRender(render, mem, swap) ==
    IF render = "reference" THEN MemoryReferenceRender(mem, swap)
    ELSE PlainRender

\* refresh_memory_specifics(MemoryRefreshKind::everything()): the handle
\* takes the counters the OS reports at this moment
RefreshMemory(handle, os) == os

\* MemoryUsage::tick when the OS reports the counters os
MemoryTick(self, os) ==
    LET handle == RefreshMemory(self.memory_handle, os)
        used_bytes == handle.free_memory
        total_bytes == handle.total_memory
        used_swap == handle.used_swap
        total_swap == handle.total_swap
        text == IF self.render # "none"
                THEN ApplyMemoryRender(self.render,
                                       <<used_bytes, total_bytes>>,
                                       <<used_swap, total_swap>>)
                ELSE MemoryDefaultFormat(<<used_bytes, total_bytes>>,
                                         <<used_swap, total_swap>>)
    IN  [panic |-> FALSE,
         memory_handle |-> handle,
         mem |-> <<used_bytes, total_bytes>>,
         swap |-> <<used_swap, total_swap>>,
         hook_calls |-> IF self.render # "none" THEN 1 ELSE 0,
         batch |-> MemoryText(self, text)]

(***************************************************************************)
(* Inputs: what the battery directory holds and what the OS reports at a   *)
(* tick.                                                                   *)
(***************************************************************************)
T_0 == <<"0">>
T_1 == <<"1">>
T_3 == <<" ", "3", "\n">>
T_7 == <<"7", "\n">>
T_73 == <<"7", "3", "\n">>
T_100 == <<"1", "0", "0">>
T_Plus5 == <<"+", "5">>
T_Minus1 == <<"-", "1">>
T_Abc == <<"a", "b", "c">>
T_1Dot5 == <<"1", ".", "5">>
T_500000 == <<"5", "0", "0", "0", "0", "0", "\n">>
T_250000 == <<"2", "5", "0", "0", "0", "0">>
T_2000000 == <<"2", "0", "0", "0", "0", "0", "0", "\n">>
T_Empty == <<>>

CurrentTexts == {T_0, T_1, T_3, T_Plus5, T_500000, T_Abc, T_Minus1, T_Empty}
ChargeTexts == {T_0, T_7, T_250000, T_1Dot5, T_Empty}
CapacityTexts == {T_73, T_100, T_7, T_Abc}

StatusWords ==
    {S_Charging, S_Discharging, S_Full, S_NotCharging,
     <<"c", "h", "a", "r", "g", "i", "n", "g">>,
     <<"F", "U", "L", "L">>,
     <<"N", "o", "t", "C", "h", "a", "r", "g", "i", "n", "g">>,
     <<"N", "o", "t", " ", "c", "h", "a", "r", "g", "i", "n", "g">>,
     <<"F", "u", "l", "l", " ", "x">>,
     <<"U", "n", "k", "n", "o", "w", "n">>,
     T_Empty}

\* a status word as the kernel writes it, with or without whitespace around
StatusTexts ==
    StatusWords
    \cup {w \o <<"\n">> : w \in StatusWords}
    \cup {<<" ", "\t">> \o w \o <<" ", "\n">> :
             w \in {S_Full, S_NotCharging, T_Empty}}

\* the missing file, the file whose read fails, the file read in full
Missing == File(FALSE, FALSE, T_Empty)
Unreadable(data) == File(TRUE, FALSE, data)
Good(data) == File(TRUE, TRUE, data)

\* the directory of a discharging battery at 73%
BaseDir ==
    [current_now |-> Good(T_500000), charge_now |-> Good(T_2000000),
     capacity |-> Good(T_73), status |-> Good(S_Discharging \o <<"\n">>)]

\* every pair of current and charge texts whose time_till_empty, a count of
\* seconds far below the u64 range of Duration, also fits TLC's integers,
\* and every single file of BaseDir replaced, missing or unreadable
BatteryDirs ==
    {[BaseDir EXCEPT !.current_now = Good(c), !.charge_now = Good(q)] :
        c \in CurrentTexts, q \in ChargeTexts}
    \cup {[BaseDir EXCEPT !.current_now = Good(c)] :
             c \in CurrentTexts \ {T_1, T_3}}
    \cup {[BaseDir EXCEPT !.capacity = Good(c)] : c \in CapacityTexts}
    \cup {[BaseDir EXCEPT !.status = Good(t)] : t \in StatusTexts}
    \cup {[BaseDir EXCEPT !.current_now = Good(T_0), !.status = Good(T_Abc)],
          [BaseDir EXCEPT !.capacity = Good(T_Abc), !.status = Good(T_Abc)],
          [BaseDir EXCEPT !.current_now = Missing],
          [BaseDir EXCEPT !.charge_now = Missing],
          [BaseDir EXCEPT !.capacity = Missing],
          [BaseDir EXCEPT !.status = Missing],
          [BaseDir EXCEPT !.current_now = Unreadable(T_500000)],
          [BaseDir EXCEPT !.charge_now = Unreadable(T_2000000)],
          [BaseDir EXCEPT !.capacity = Unreadable(T_73)],
          [BaseDir EXCEPT !.status = Unreadable(S_Charging)]}

\* the counters the OS can report: used and free memory together never
\* exceed the total, used swap never exceeds total swap
OsSnapshots ==
    {os \in [used_memory : 0..MaxMem, free_memory : 0..MaxMem,
             total_memory : 0..MaxMem, used_swap : 0..MaxSwap,
             total_swap : 0..MaxSwap] :
        /\ os.used_memory + os.free_memory <= os.total_memory
        /\ os.used_swap <= os.total_swap}

\* a render hook is absent, the closure of main.rs, or another closure
Renders == {"none", "reference", "plain"}

\* the (Battery render, MemoryUsage render) pairs a bar holding both
\* widgets is built with; the first is that of main.rs
Configs ==
    {<<"reference", "reference">>, <<"none", "none">>,
     <<"plain", "none">>, <<"none", "plain">>}

\* the directories and the counters met by the bar that holds both widgets
FewDirs ==
    {BaseDir,
     [BaseDir EXCEPT !.current_now = Good(T_0)],
     [BaseDir EXCEPT !.capacity = Missing],
     [BaseDir EXCEPT !.charge_now = Good(T_Abc)],
     [BaseDir EXCEPT !.status = Unreadable(S_Charging)]}

FewSnapshots ==
    {os \in OsSnapshots :
        /\ os.total_memory = MaxMem
        /\ os.used_memory + os.free_memory = MaxMem
        /\ os.free_memory \in {0, 1}
        /\ os.total_swap = os.used_swap}

Widgets == {"battery", "memory"}

(***************************************************************************)
(* The bar: the widgets added to it are turned into interval streams and   *)
(* polled by one task.                                                     *)
(***************************************************************************)
\* IntervalNew with the first tick one period after the start, as
\* time::interval_at(start + period, period) would give
IntervalNew_AfterPeriod(t, period) == t + period

\* time::interval(period) at time t: the first tick completes immediately
IntervalNew(t, period) == t

\* Interval::poll_tick under MissedTickBehavior::Burst: the next deadline is
\* the previous deadline plus the period
NextDeadline(d, period) == d + period

\* the bar holding the widgets ws, built with one of the render pairs cs
InitBar(ws, cs) ==
    /\ now = 0
    /\ terminated = FALSE
    /\ bar = ws
    /\ \E c \in cs :
          /\ battery = BatteryNew("battery_attrs", c[1], BatteryInterval)
          /\ memory = MemoryUsageNew("memory_attrs", c[2])
    /\ deadline = [w \in Widgets |->
                      IntervalNew(0, IF w = "battery" THEN BatteryInterval
                                     ELSE MemoryInterval)]
    /\ fired = [w \in Widgets |-> 0]
    /\ out = [w \in Widgets |-> <<>>]
    /\ last = [widget |-> "none"]

\* the clock advances by one second; a timer that is due is polled at most
\* MaxLatency after its deadline
Advance ==
    /\ ~terminated
    /\ now < MaxTime
    /\ \A w \in bar : now + 1 <= deadline[w] + MaxLatency
    /\ now' = now + 1
    /\ UNCHANGED <<terminated, bar, battery, memory, deadline, fired, out,
                   last>>

\* what the consumer receives for the firing n of a stream at time t
Emitted(n, t, batch) == [n |-> n, t |-> t, len |-> Len(batch)]

\* Battery::into_stream, one item of the stream: the interval fires and
\* the map closure runs self.tick(); a panic in tick unwinds through the
\* polling task and ends the process
BatteryFire(dir) ==
    LET r == BatteryTick(battery, dir)
        n == fired["battery"] + 1
    IN  /\ ~terminated
        /\ "battery" \in bar
        /\ now >= deadline["battery"]
        /\ deadline' = [deadline EXCEPT !["battery"] =
                           NextDeadline(@, battery.update_interval)]
        /\ fired' = [fired EXCEPT !["battery"] = n]
        /\ last' = [widget |-> "battery", n |-> n, t |-> now, dir |-> dir,
                    res |-> r]
        /\ IF r.panic
           THEN /\ terminated' = TRUE
                /\ out' = out
           ELSE /\ terminated' = terminated
                /\ out' = [out EXCEPT !["battery"] =
                              Append(@, Emitted(n, now, r.batch))]
        /\ UNCHANGED <<now, bar, battery, memory>>

\* MemoryUsage::into_stream, one item of the stream
MemoryFire(os) ==
    LET r == MemoryTick(memory, os)
        n == fired["memory"] + 1
    IN  /\ ~terminated
        /\ "memory" \in bar
        /\ now >= deadline["memory"]
        /\ deadline' = [deadline EXCEPT !["memory"] =
                           NextDeadline(@, memory.update_interval)]
        /\ fired' = [fired EXCEPT !["memory"] = n]
        /\ memory' = [memory EXCEPT !.memory_handle = r.memory_handle]
        /\ last' = [widget |-> "memory", n |-> n, t |-> now, os |-> os,
                    res |-> r]
        /\ out' = [out EXCEPT !["memory"] =
                      Append(@, Emitted(n, now, r.batch))]
        /\ UNCHANGED <<now, terminated, bar, battery>>

\* the bar of main.rs: both widgets
Init == InitBar(Widgets, Configs)

Next ==
    \/ Advance
    \/ \E dir \in FewDirs : BatteryFire(dir)
    \/ \E os \in FewSnapshots : MemoryFire(os)

Spec == Init /\ [][Next]_vars

\* a bar holding the Battery widget alone, over every directory
InitBattery == InitBar({"battery"}, {<<r, "none">> : r \in Renders})

NextBattery ==
    \/ Advance
    \/ \E dir \in BatteryDirs : BatteryFire(dir)

SpecBattery == InitBattery /\ [][NextBattery]_vars

\* a bar holding the MemoryUsage widget alone, over every snapshot
InitMemory == InitBar({"memory"}, {<<"none", r>> : r \in Renders})

NextMemory ==
    \/ Advance
    \/ \E os \in OsSnapshots : MemoryFire(os)

SpecMemory == InitMemory /\ [][NextMemory]_vars

(***************************************************************************)
(* Properties.                                                             *)
(***************************************************************************)
\* the polling interval of a widget
IntervalOf(w) ==
    IF w = "battery" THEN battery.update_interval ELSE memory.update_interval

\* the last firing was one of Battery, resp. MemoryUsage
BatteryFired == last.widget = "battery"
MemoryFired == last.widget = "memory"

\* the text the last Battery tick read from a file (empty on a failed read)
ContentRead(f) == IF f.readable THEN f.data ELSE T_Empty

\* the number a text of the model stands for, by table, -1 when it stands
\* for none
NumberOf(text) ==
    CASE text = T_0 -> 0
      [] text = T_1 -> 1
      [] text = T_3 -> 3
      [] text = T_7 -> 7
      [] text = T_73 -> 73
      [] text = T_100 -> 100
      [] text = T_Plus5 -> 5
      [] text = T_250000 -> 250000
      [] text = T_500000 -> 500000
      [] text = T_2000000 -> 2000000
      [] OTHER -> -1

AllOpen(dir) ==
    /\ dir.current_now.exists
    /\ dir.charge_now.exists
    /\ dir.capacity.exists
    /\ dir.status.exists

CurrentOf(dir) == NumberOf(ContentRead(dir.current_now))
ChargeOf(dir) == NumberOf(ContentRead(dir.charge_now))
CapacityOf(dir) == NumberOf(ContentRead(dir.capacity))

\* s is the word w with whitespace only before and after it
StripsTo(s, w) ==
    \E a \in 0..Len(s) :
        /\ a + Len(w) <= Len(s)
        /\ SubSeq(s, a + 1, a + Len(w)) = w
        /\ \A k \in 1..a : IsWhitespace(s[k])
        /\ \A k \in (a + Len(w) + 1)..Len(s) : IsWhitespace(s[k])

\* C1 as stated: the Nth batch of every stream is emitted no earlier than
\* N intervals after the start and no later than that plus the latency.
C1_NthBatchAfterNIntervals ==
    \A w \in bar : \A i \in 1..Len(out[w]) :
        /\ out[w][i].t >= i * IntervalOf(w)
        /\ out[w][i].t <= i * IntervalOf(w) + MaxLatency

\* C1 amended: the Nth batch of every stream is emitted no earlier than
\* N-1 intervals after the start (the first one at the start itself) and no
\* later than that plus the latency.
C1_NthBatchAfterNMinus1Intervals ==
    \A w \in bar : \A i \in 1..Len(out[w]) :
        /\ out[w][i].t >= (i - 1) * IntervalOf(w)
        /\ out[w][i].t <= (i - 1) * IntervalOf(w) + MaxLatency

C1_Witness ==
    /\ Len(out["battery"]) >= 2
    /\ out["battery"][1].t = 0
    /\ out["battery"][2].t = BatteryInterval
    /\ Len(out["memory"]) >= 3

\* C2: a Battery tick that reads current_now = 0 (the other files holding
\* numbers) completes without a panic.
C2_ZeroCurrentDoesNotCrash ==
    (/\ BatteryFired
     /\ AllOpen(last.dir)
     /\ CurrentOf(last.dir) = 0
     /\ ChargeOf(last.dir) >= 0
     /\ CapacityOf(last.dir) >= 0)
    => ~last.res.panic

\* the class the thresholds of 50% and 80% of the total give a quantity
ClassOf(used, total) ==
    IF 5 * used >= 4 * total THEN "red"
    ELSE IF 2 * used >= total THEN "yellow"
    ELSE "white"

\* C3: the reference memory hook colours main memory and swap white below
\* 50% of the total, yellow from 50% to below 80%, red from 80%.
C3_ThresholdClasses ==
    (MemoryFired /\ memory.render = "reference")
    => LET text == last.res.batch[1].text
       IN  /\ text.mem_colour = ClassOf(text.used_mem, text.total_mem)
           /\ text.swap_colour = ClassOf(text.used_swap, text.total_swap)

\* C4: the status of every sample is Charging, Discharging, Full or
\* NotCharging exactly when the status file holds that word ("Not Charging"
\* for the last) between whitespace, and Unknown for every other content.
C4_StatusMappingTotal ==
    (BatteryFired /\ ~last.res.panic)
    => LET c == ContentRead(last.dir.status)
           st == last.res.sample.status
       IN  /\ st \in ChargeStatus
           /\ st = "Charging" <=> StripsTo(c, S_Charging)
           /\ st = "Discharging" <=> StripsTo(c, S_Discharging)
           /\ st = "Full" <=> StripsTo(c, S_Full)
           /\ st = "NotCharging" <=> StripsTo(c, S_NotCharging)
           /\ st = "Unknown" <=>
                 \A w \in {S_Charging, S_Discharging, S_Full, S_NotCharging} :
                     ~StripsTo(c, w)

C4_Witness ==
    /\ BatteryFired
    /\ ~last.res.panic
    /\ last.res.sample.status = "NotCharging"
    /\ Len(last.dir.status.data) > Len(S_NotCharging)

\* C5: the pairs a MemoryUsage tick hands on are (used memory, total
\* memory) and (used swap, total swap) of the OS at that tick.
C5_PairsAreUsedAndTotal ==
    MemoryFired
    => /\ last.res.mem = <<last.os.used_memory, last.os.total_memory>>
       /\ last.res.swap = <<last.os.used_swap, last.os.total_swap>>

\* C6: every fragment emitted has markup set exactly when the widget was
\* built with a render hook, whatever text the hook returned; without a
\* hook the text is that of the built-in formatter.
C6_MarkupIffHook ==
    (last.widget \in Widgets /\ ~last.res.panic)
    => LET render == IF BatteryFired THEN battery.render ELSE memory.render
       IN  \A i \in 1..Len(last.res.batch) :
              /\ last.res.batch[i].markup <=> render # "none"
              /\ render = "none" =>
                    last.res.batch[i].text.fmt
                        \in {"battery_default", "memory_default"}
              /\ render # "none" =>
                    last.res.batch[i].text.fmt
                        \in {"battery_reference", "memory_reference", "plain"}

C6_Witness ==
    /\ BatteryFired
    /\ ~last.res.panic
    /\ last.res.batch[1].markup
    /\ last.res.batch[1].text.fmt = "plain"

\* a file is missing or a numeric file holds no number
TickLocalFailure(dir) ==
    \/ ~AllOpen(dir)
    \/ CurrentOf(dir) < 0
    \/ ChargeOf(dir) < 0
    \/ CapacityOf(dir) < 0

\* C7: a Battery tick that meets a missing or unreadable file or
\* non-integer content does not end the process.
C7_FailureStaysLocal ==
    (BatteryFired /\ TickLocalFailure(last.dir)) => ~terminated

\* 3600 * charge / current in whole seconds, by way of the minutes
SecondsLeft(charge, current) ==
    LET m == (60 * charge) \div current
        r == (60 * charge) % current
    IN  60 * m + (60 * r) \div current

\* C8: a Battery tick with current > 0 yields a sample whose
\* time_till_empty is 3600 * charge / current seconds (4 hours for current
\* 500000 and charge 2000000) and whose capacity and status are those of
\* the files.
C8_TimeTillEmpty ==
    (/\ BatteryFired
     /\ AllOpen(last.dir)
     /\ CurrentOf(last.dir) > 0
     /\ ChargeOf(last.dir) >= 0
     /\ CapacityOf(last.dir) >= 0)
    => /\ ~last.res.panic
       /\ last.res.sample.time_till_empty
             = SecondsLeft(ChargeOf(last.dir), CurrentOf(last.dir))
       /\ (CurrentOf(last.dir) = 500000 /\ ChargeOf(last.dir) = 2000000)
             => last.res.sample.time_till_empty = 4 * 3600
       /\ last.res.sample.capacity = CapacityOf(last.dir)
       /\ StripsTo(ContentRead(last.dir.status), S_Discharging)
             => last.res.sample.status = "Discharging"

C8_Witness ==
    /\ BatteryFired
    /\ last.dir = BaseDir
    /\ ~last.res.panic
    /\ last.res.sample.time_till_empty = 14400
    /\ last.res.sample.capacity = 73

\* C9: every firing of every stream has yielded exactly one batch, of one
\* fragment, in the order of the firings; the fragment has stretch unset
\* and the attributes of the widget, and the hook ran at most once.
C9_OneBatchPerFiring ==
    /\ \A w \in bar :
          /\ Len(out[w]) = fired[w]
          /\ \A i \in 1..Len(out[w]) : out[w][i].n = i /\ out[w][i].len = 1
    /\ (last.widget \in Widgets /\ ~last.res.panic)
          => /\ last.res.hook_calls <= 1
             /\ last.res.batch[1].stretch = FALSE
             /\ last.res.batch[1].attr
                   = IF BatteryFired THEN battery.attrs ELSE memory.attrs

\* the status file holds none of the four words
Unrecognized(dir) ==
    \A w \in {S_Charging, S_Discharging, S_Full, S_NotCharging} :
        ~StripsTo(ContentRead(dir.status), w)

\* C10: a Battery tick whose current_now, charge_now or capacity holds no
\* non-negative integer panics and emits nothing; unrecognized or unreadable
\* status content never makes a tick panic that would not panic on
\* "Charging", and the fragment then emitted carries the status Unknown.
C10_NumericFatalStatusNot ==
    (BatteryFired /\ AllOpen(last.dir))
    => /\ (CurrentOf(last.dir) < 0 \/ ChargeOf(last.dir) < 0
              \/ CapacityOf(last.dir) < 0)
             => /\ last.res.panic
                /\ terminated
                /\ Len(out["battery"]) = last.n - 1
       /\ Unrecognized(last.dir)
             => /\ last.res.panic
                     = BatteryTick(battery,
                           [last.dir EXCEPT !.status = Good(S_Charging)]).panic
                /\ ~last.res.panic
                      => /\ last.res.sample.status = "Unknown"
                         /\ Len(last.res.batch) = 1
                         /\ Len(out["battery"]) = last.n

C10_Witness ==
    /\ BatteryFired
    /\ ~last.dir.status.readable
    /\ last.dir.status.exists
    /\ ~last.res.panic
    /\ last.res.sample.status = "Unknown"
    /\ Len(out["battery"]) = last.n

====
